---- MODULE Spec2Model ----
(***************************************************************************)
(* Session orchestration layer of cribcall_quic (lib.rs): the client       *)
(* session loop run_client_worker, the server session loop                 *)
(* run_server_worker, the command channel feeding them and the events they *)
(* post to the sink.  The transport engine (quiche) is used through its    *)
(* call contract: every engine call is a nondeterministic choice over the  *)
(* results the call can give.  The process-wide handle counter and handle  *)
(* registry behind the API entry points are modelled with their callers    *)
(* and worker threads in the specification RegSpec.                        *)
(***************************************************************************)
EXTENDS Integers, Sequences, FiniteSets, TLC

\* ---------------------------------------------------------------- bounds
MaxDgrams == 3      \* datagrams the socket delivers in one run
MaxCmds == 2        \* commands the application enqueues in one run
MaxConns == 2       \* connections a server loop accepts in one run
MaxChunks == 1      \* reads pending on a connection's streams at one time
MaxSends == 2       \* payloads submitted on the payload path
MaxLen == 2         \* bytes of one payload
MaxCalls == 2       \* calls of cc_quic_client_connect / cc_quic_server_start
MaxDisp == 2        \* calls of cc_quic_conn_send / cc_quic_conn_close
MaxCallers == 2     \* application threads calling the API concurrently

\* ------------------------------------------------------- program constants
CLOSE_APP == 256          \* 0x100, b"app close"
CLOSE_SERVER == 257       \* 0x101, b"server close"
CLOSE_MISMATCH == 258     \* 0x102, b"fingerprint mismatch"
CLOSE_UNTRUSTED == 259    \* 0x103, b"untrusted client"
APP_BUF == 65535          \* let mut app_buf = [0u8; 65535]

VARIABLES
    kind,               \* "client": run_client_worker, "server": run_server_worker
    expected_fp,        \* client: the expected fingerprint, lowercased (empty = no pinning)
    trusted_allowlist,  \* server: the allowlist ({} = no pinning)
    sock_blocking,      \* set_nonblocking(true) failed: the socket blocks in recv_from
    pc,                 \* position of the loop thread
    rx,                 \* the command channel (mpsc), oldest first
    cmd,                \* the command try_recv returned last in this drain
    events,             \* what post_event handed to the sink, oldest first
    conn,               \* client: the engine connection
    announced,          \* client: the announced flag
    conns,              \* server: connection id -> engine connection
    s_announced,        \* server: the announced set
    start_times,        \* server: ids with a recorded accept time
    to_close,           \* server: removals accumulated in this iteration
    todo,               \* server: ids the per-connection pass has still to visit
    cur,                \* server: the id the pass is at
    hdr_dcid,           \* server: hdr.dcid of the datagram the receive step is handling
    nsleep,             \* server: calls of thread::sleep in this iteration
    next_scid,          \* the next connection id the random source yields
    ndgram,             \* datagrams delivered so far
    ncmd,               \* commands enqueued so far
    rt_status,          \* payload path: what cc_quic_conn_send returned last
    rt_sent,            \* payload path: payloads cc_quic_conn_send accepted, in order
    rt_rx,              \* payload path: Send payloads waiting in the sender's channel
    rt_stream,          \* payload path: bytes the sender's engine took on the stream
    rt_arrived,         \* payload path: how many of them the receiver's engine holds
    rt_read,            \* payload path: how many of them stream_recv has returned
    rt_msgs,            \* payload path: data_base64 of the receiver's Message events
    rt_pc,              \* payload path: the receiver's place: in the stream drain or outside
    registered,         \* the session's handle_id has its entry in CONNECTIONS
    NEXT_HANDLE,        \* registry: the handle counter
    once_init,          \* registry: the CONNECTIONS cell holds a map
    CONNECTIONS,        \* registry: the handles that have an entry in the map
    chans,              \* registry: handle -> its mpsc channel (queue, receiver alive)
    threads,            \* registry: handle -> position of the spawned worker thread
    blocking,           \* registry: handles whose socket was left in blocking mode
    calls,              \* registry: caller -> the API call it is executing
    out_handle,         \* registry: caller -> what its call wrote through out_handle
    returned,           \* registry: handles that completed calls have returned
    accepted,           \* registry: handle -> commands a dispatch returned Ok for, in order
    consumed,           \* registry: handle -> commands the worker's try_recv returned, in order
    last_disp,          \* registry: the dispatch call that completed last
    removals,           \* registry: handle -> how often its thread called map.remove
    ncalls,             \* registry: calls of connect / start begun so far
    ndisp               \* registry: dispatch calls made so far

vars == <<kind, expected_fp, trusted_allowlist, sock_blocking, pc, rx, cmd, events, conn,
          announced, conns, s_announced, start_times, to_close, todo, cur,
          hdr_dcid, nsleep, next_scid, ndgram, ncmd, rt_status, rt_sent, rt_rx, rt_stream,
          rt_arrived, rt_read, rt_msgs, rt_pc, registered, NEXT_HANDLE, once_init,
          CONNECTIONS, chans, threads, blocking, calls, out_handle, returned,
          accepted, consumed, last_disp, removals, ncalls, ndisp>>

regVars == <<NEXT_HANDLE, once_init, CONNECTIONS, chans, threads, blocking, calls,
             out_handle, returned, accepted, consumed, last_disp, removals, ncalls, ndisp>>

rtVars == <<rt_status, rt_sent, rt_rx, rt_stream, rt_arrived, rt_read, rt_msgs, rt_pc>>

\* ------------------------------------------------------------ values
NoCmd == [type |-> "None", conn_id |-> 0]
NoId == 0                     \* Option::None of a connection id
StrangerId == 99              \* an id no loop ever generated

\* A string is the sequence of its characters.
EmptyStr == <<>>              \* String::new()
Fingerprints == {<<"a", "a">>, <<"b", "b">>}   \* sha256_hex of the certificates peers present
\* expected fingerprints a caller passes in: none, matching, upper case, a blank
FpInputs == {EmptyStr, <<"a", "a">>, <<"A", "A">>, <<" ">>}
\* trusted_fingerprints_csv a caller passes in: empty, a blank, aa, and AA between blanks with a trailing comma
Csvs == {EmptyStr, <<" ">>, <<"a", "a">>, <<" ", "A", "A", " ", ",">>}

\* char::to_lowercase on the characters of the model
LowerChar(c) == CASE c = "A" -> "a" [] c = "B" -> "b" [] OTHER -> c

\* str::to_lowercase
RECURSIVE ToLower(_)
ToLower(s) == IF s = <<>> THEN <<>> ELSE <<LowerChar(Head(s))>> \o ToLower(Tail(s))

\* str::split at the commas: the fields between them, the empty string giving one empty field
RECURSIVE SplitComma(_)
SplitComma(s) ==
    IF s = <<>> THEN << <<>> >>
    ELSE LET rest == SplitComma(Tail(s))
         IN  IF Head(s) = "," THEN << <<>> >> \o rest
             ELSE << <<Head(s)>> \o Head(rest) >> \o Tail(rest)

\* str::trim: the blanks at both ends removed
RECURSIVE TrimStart(_)
TrimStart(s) == IF s # <<>> /\ Head(s) = " " THEN TrimStart(Tail(s)) ELSE s

RECURSIVE TrimEnd(_)
TrimEnd(s) ==
    IF s # <<>> /\ s[Len(s)] = " " THEN TrimEnd(SubSeq(s, 1, Len(s) - 1)) ELSE s

Trim(s) == TrimEnd(TrimStart(s))

\* hex_string of a one-byte connection id: its two hex digits
hex_string(id) == <<id \div 16, id % 16>>

\* Option<String> of an event's connection_id
SomeId(id) == hex_string(id)
NoneId == <<>>

Event(t, cid) == [type |-> t, conn |-> cid]
Connected(cid, fp) == [type |-> "Connected", conn |-> cid, peer_fingerprint |-> fp]

\* the client's own connection id (scid), drawn before quiche::connect
ClientScid == 1

\* mutant: the stream drain placed before the announce test
NextStep_ReadFirst(p) ==
    CASE p = "c_drain" -> "c_send"
      [] p = "c_send" -> "c_recv"
      [] p = "c_recv" -> "c_read"
      [] p = "c_read" -> "c_announce"
      [] p = "c_announce" -> "c_closed"
      [] p = "c_closed" -> "c_timer"
      [] p = "c_timer" -> "c_drain"
      [] p = "s_drain" -> "s_recv"
      [] p = "s_send" -> "s_read"
      [] p = "s_read" -> "s_announce"
      [] p = "s_announce" -> "s_closed"
      [] p = "s_closed" -> "s_timer"
      [] p = "s_timer" -> "s_pass"

\* the order of the steps of one loop iteration (client) and of the body of the
\* per-connection pass (server)
NextStep(p) ==
    CASE p = "c_drain" -> "c_send"
      [] p = "c_send" -> "c_recv"
      [] p = "c_recv" -> "c_announce"
      [] p = "c_announce" -> "c_read"
      [] p = "c_read" -> "c_closed"
      [] p = "c_closed" -> "c_timer"
      [] p = "c_timer" -> "c_drain"
      [] p = "s_drain" -> "s_recv"
      [] p = "s_send" -> "s_announce"
      [] p = "s_announce" -> "s_read"
      [] p = "s_read" -> "s_closed"
      [] p = "s_closed" -> "s_timer"
      [] p = "s_timer" -> "s_pass"

\* mutant: the fields that trim to nothing are kept
parse_allowlist_KeepsEmpty(csv) ==
    LET fields == SplitComma(csv)
    IN  {ToLower(Trim(fields[i])) : i \in 1 .. Len(fields)}

\* parse_allowlist: split at the commas, trim, drop what is empty, lowercase
parse_allowlist(csv) ==
    LET fields == SplitComma(csv)
    IN  {ToLower(Trim(fields[i])) : i \in {j \in 1 .. Len(fields) : Trim(fields[j]) # <<>>}}

\* ------------------------------------------------------------ the engine
\* One quiche::Connection, as far as the loops observe it.
\*   est   is_established()      st    "open" | "closing" | "closed" (is_closed())
\*   rd    reads stream_recv will still return      fp   sha256_hex(peer_cert()) or empty
\*   code  the application close code given to close(), 0 if none
\*   sent  stream_send calls the engine accepted
NewConn == [est |-> FALSE, st |-> "open", rd |-> 0, fp |-> EmptyStr, code |-> 0, sent |-> 0]

\* conn.close(false, code, reason): Err(Done) once closing or closed
EngineClose(c, code) ==
    IF c.st = "open" THEN [c EXCEPT !.st = "closing", !.code = code] ELSE c

\* conn.stream_send(CONTROL_STREAM_ID, payload, false): accepted, or Err
EngineStreamSend(c) ==
    IF c.st = "open" THEN {c, [c EXCEPT !.sent = @ + 1]} ELSE {c}

\* conn.recv(datagram): one datagram can complete the handshake, bring stream
\* data of an established connection (early data is not enabled in the
\* configuration), carry the peer's close, any of them together, or nothing the
\* loop can see
EngineRecv(c) ==
    IF c.st = "closed" THEN {c}
    ELSE LET hs == IF c.st = "open" /\ ~c.est
                   THEN {c} \cup {[c EXCEPT !.est = TRUE, !.fp = f] :
                                     f \in Fingerprints \cup {EmptyStr}}
                   ELSE {c}
             data(d) == IF d.est /\ d.rd < MaxChunks
                        THEN {d, [d EXCEPT !.rd = @ + 1]}
                        ELSE {d}
             close(d) == {d, [d EXCEPT !.st = "closed"]}
                         \cup (IF d.st = "open" THEN {[d EXCEPT !.st = "closing"]} ELSE {})
         IN  UNION {UNION {close(d2) : d2 \in data(d1)} : d1 \in hs}

\* conn.on_timeout(): idle or draining timer expired, or a loss timer
EngineOnTimeout(c) == {c, [c EXCEPT !.st = "closed"]}

\* ------------------------------------------------------------ registry values
Callers == 1 .. MaxCallers
Handles == 1 .. MaxCalls            \* the handles MaxCalls calls can be handed
NoHandle == 0                       \* no handle: NEXT_HANDLE starts at 1
StrangerHandle == 99                \* a handle no call was ever handed
IdleCall == [op |-> "none", pc |-> "idle", fault |-> "none", handle_id |-> NoHandle,
             status |-> "none", before |-> {}]

\* the process before any API call: NEXT_HANDLE = 1, CONNECTIONS not initialised
RegInit ==
    /\ NEXT_HANDLE = 1
    /\ once_init = FALSE
    /\ CONNECTIONS = {}
    /\ chans = [h \in Handles |-> [q |-> <<>>, open |-> FALSE]]
    /\ threads = [h \in Handles |-> "none"]
    /\ blocking = {}
    /\ calls = [c \in Callers |-> IdleCall]
    /\ out_handle = [c \in Callers |-> NoHandle]
    /\ returned = {}
    /\ accepted = [h \in Handles |-> <<>>]
    /\ consumed = [h \in Handles |-> <<>>]
    /\ last_disp = [op |-> "none", handle |-> NoHandle, found |-> FALSE, status |-> "none"]
    /\ removals = [h \in Handles |-> 0]
    /\ ncalls = 0
    /\ ndisp = 0

\* ------------------------------------------------------------ Init
Init ==
    /\ registered = TRUE
    /\ RegInit
    /\ kind \in {"client", "server"}
    /\ expected_fp \in {ToLower(s) : s \in FpInputs}
    /\ trusted_allowlist \in {parse_allowlist(csv) : csv \in Csvs}
    /\ (kind = "client" => trusted_allowlist = {})
    /\ (kind = "server" => expected_fp = EmptyStr)
    /\ sock_blocking \in BOOLEAN
    /\ pc = "setup"
    /\ rx = <<>>
    /\ cmd = NoCmd
    /\ events = <<>>
    /\ conn = NewConn
    /\ announced = FALSE
    /\ conns = [id \in {} |-> NewConn]
    /\ s_announced = {}
    /\ start_times = {}
    /\ to_close = <<>>
    /\ todo = {}
    /\ cur = NoId
    /\ hdr_dcid = NoId
    /\ nsleep = 0
    /\ next_scid = 1
    /\ ndgram = 0
    /\ ncmd = 0
    /\ rt_status = "Ok"
    /\ rt_sent = <<>>
    /\ rt_rx = <<>>
    /\ rt_stream = <<>>
    /\ rt_arrived = 0
    /\ rt_read = 0
    /\ rt_msgs = <<>>
    /\ rt_pc = "idle"

Post(e) == events' = Append(events, e)

\* ------------------------------------------------------------ producers
\* cc_quic_conn_send: a Send for the session's handle
ConnSend ==
    /\ pc # "done"
    /\ ncmd < MaxCmds
    /\ \E id \in {ClientScid, StrangerId} :
          rx' = Append(rx, [type |-> "Send", conn_id |-> id])
    /\ ncmd' = ncmd + 1
    /\ UNCHANGED <<regVars, registered, rtVars, kind, expected_fp, trusted_allowlist,
                   sock_blocking, pc, cmd, events, conn,
                   announced, conns, s_announced, start_times, to_close, todo, cur,
                   hdr_dcid, nsleep, next_scid, ndgram>>

\* cc_quic_conn_close: always Close { conn_id: None }
ConnClose ==
    /\ pc # "done"
    /\ ncmd < MaxCmds
    /\ rx' = Append(rx, [type |-> "Close", conn_id |-> NoId])
    /\ ncmd' = ncmd + 1
    /\ UNCHANGED <<regVars, registered, rtVars, kind, expected_fp, trusted_allowlist,
                   sock_blocking, pc, cmd, events, conn,
                   announced, conns, s_announced, start_times, to_close, todo, cur,
                   hdr_dcid, nsleep, next_scid, ndgram>>

\* ------------------------------------------------------------ client loop
cfgVars == <<kind, expected_fp, trusted_allowlist, sock_blocking>>
serverVars == <<conns, s_announced, start_times, to_close, todo, cur, hdr_dcid, nsleep>>

\* socket.local_addr() and quiche::connect before the loop
ClientSetup ==
    /\ kind = "client" /\ pc = "setup"
    /\ \/ /\ pc' = "c_drain"
          /\ UNCHANGED events
       \/ /\ Post(Event("Error", NoneId))
          /\ pc' = "done"
       \/ /\ Post(Event("Error", SomeId(ClientScid)))
          /\ pc' = "done"
    /\ next_scid' = ClientScid + 1
    /\ UNCHANGED <<regVars, registered, rtVars, cfgVars, rx, cmd, conn, announced, serverVars, ndgram, ncmd>>

\* mutant: the target id of a Send is not compared
ClientSendTarget_AnyId(c, m) == c.est

\* if conn.is_established() && conn_id == scid.as_ref()
ClientSendTarget(c, m) == c.est /\ m.conn_id = ClientScid

\* mutant: a Close command is taken from the channel and not applied
ClientApply_CloseIgnored(c, m) ==
    IF m.type = "Send"
    THEN IF c.est /\ m.conn_id = ClientScid THEN EngineStreamSend(c) ELSE {c}
    ELSE {c}

\* what the client does with one command
ClientApply(c, m) ==
    IF m.type = "Send"
    THEN IF ClientSendTarget(c, m) THEN EngineStreamSend(c) ELSE {c}
    ELSE IF m.conn_id = NoId \/ m.conn_id = ClientScid
         THEN {EngineClose(c, CLOSE_APP)}
         ELSE {c}

\* while let Ok(cmd) = rx.try_recv() { ... }: one command
ClientTryRecv ==
    /\ kind = "client" /\ pc = "c_drain" /\ rx # <<>>
    /\ cmd' = Head(rx)
    /\ rx' = Tail(rx)
    /\ conn' \in ClientApply(conn, Head(rx))
    /\ UNCHANGED <<regVars, registered, rtVars, cfgVars, pc, events, announced, serverVars, next_scid, ndgram, ncmd>>

\* try_recv finds the channel empty: the drain ends
ClientDrainEnd ==
    /\ kind = "client" /\ pc = "c_drain" /\ rx = <<>>
    /\ pc' = NextStep(pc)
    /\ cmd' = NoCmd
    /\ UNCHANGED <<regVars, registered, rtVars, cfgVars, rx, events, conn, announced, serverVars, next_scid,
                   ndgram, ncmd>>

\* match conn.send(&mut out)
ClientSend ==
    /\ kind = "client" /\ pc = "c_send"
    /\ \/ /\ pc' = NextStep(pc)                  \* Ok(..) or Err(Done)
          /\ UNCHANGED events
       \/ /\ Post(Event("Error", SomeId(ClientScid)))   \* any other Err
          /\ pc' = "done"
    /\ UNCHANGED <<regVars, registered, rtVars, cfgVars, rx, cmd, conn, announced, serverVars, next_scid,
                   ndgram, ncmd>>

\* match socket.recv_from(&mut buf)
ClientRecv ==
    /\ kind = "client" /\ pc = "c_recv"
    /\ \/ /\ ndgram < MaxDgrams                   \* Ok((len, from))
          /\ conn' \in EngineRecv(conn)
          /\ ndgram' = ndgram + 1
          /\ pc' = NextStep(pc)
       \/ /\ ~sock_blocking                       \* WouldBlock
          /\ pc' = NextStep(pc)
          /\ UNCHANGED <<conn, ndgram>>
       \/ /\ pc' = "done"                         \* any other Err: break
          /\ UNCHANGED <<conn, ndgram>>
    /\ UNCHANGED <<regVars, registered, rtVars, cfgVars, rx, cmd, events, announced, serverVars, next_scid, ncmd>>

\* mutant: an empty expected fingerprint does not disable the comparison
ClientMismatch_NoEmptyCheck(peer_fp) == ToLower(peer_fp) # expected_fp

\* the client's trust decision on a peer fingerprint
ClientMismatch(peer_fp) == expected_fp # EmptyStr /\ ToLower(peer_fp) # expected_fp

\* conn.is_established() && !announced
ClientShouldAnnounce(c, ann) == c.est /\ ~ann

\* if conn.is_established() && !announced { ... }
ClientAnnounce ==
    /\ kind = "client" /\ pc = "c_announce"
    /\ IF ClientShouldAnnounce(conn, announced)
       THEN /\ announced' = TRUE
            /\ IF ClientMismatch(conn.fp)
               THEN /\ conn' = EngineClose(conn, CLOSE_MISMATCH)
                    /\ Post(Event("Error", SomeId(ClientScid)))
                    /\ pc' = "done"
               ELSE /\ Post(Connected(SomeId(ClientScid), conn.fp))
                    /\ pc' = NextStep(pc)
                    /\ UNCHANGED conn
       ELSE /\ pc' = NextStep(pc)
            /\ UNCHANGED <<announced, conn, events>>
    /\ UNCHANGED <<regVars, registered, rtVars, cfgVars, rx, cmd, serverVars, next_scid, ndgram, ncmd>>

\* n Message events of one connection
RECURSIVE Messages(_, _)
Messages(cid, n) == IF n = 0 THEN <<>> ELSE <<Event("Message", cid)>> \o Messages(cid, n - 1)

\* for stream_id in conn.readable() { loop { stream_recv ... } }: every read gives
\* one Message; a read error ends the drain and the stream's data is gone
ClientRead ==
    /\ kind = "client" /\ pc = "c_read"
    /\ \E n \in 0 .. conn.rd :
          /\ events' = events \o Messages(SomeId(ClientScid), n)
          /\ conn' = [conn EXCEPT !.rd = 0]
    /\ pc' = NextStep(pc)
    /\ UNCHANGED <<regVars, registered, rtVars, cfgVars, rx, cmd, announced, serverVars, next_scid, ndgram, ncmd>>

\* if conn.is_closed() { post Closed; break }
ClientClosed ==
    /\ kind = "client" /\ pc = "c_closed"
    /\ IF conn.st = "closed"
       THEN /\ Post(Event("Closed", SomeId(ClientScid)))
            /\ pc' = "done"
       ELSE /\ pc' = NextStep(pc)
            /\ UNCHANGED events
    /\ UNCHANGED <<regVars, registered, rtVars, cfgVars, rx, cmd, conn, announced, serverVars, next_scid,
                   ndgram, ncmd>>

\* the timer step: on_timeout when the deadline is due, a bounded sleep otherwise
ClientTimer ==
    /\ kind = "client" /\ pc = "c_timer"
    /\ \/ conn' \in EngineOnTimeout(conn)
       \/ UNCHANGED conn
    /\ pc' = NextStep(pc)
    /\ UNCHANGED <<regVars, registered, rtVars, cfgVars, rx, cmd, events, announced, serverVars, next_scid,
                   ndgram, ncmd>>

ClientNext ==
    \/ ClientSetup \/ ClientTryRecv \/ ClientDrainEnd \/ ClientSend \/ ClientRecv
    \/ ClientAnnounce \/ ClientRead \/ ClientClosed \/ ClientTimer

\* ------------------------------------------------------------ server loop
clientVars == <<conn, announced>>

\* socket.local_addr() before the loop
ServerSetup ==
    /\ kind = "server" /\ pc = "setup"
    /\ \/ /\ pc' = "s_drain"
          /\ UNCHANGED events
       \/ /\ Post(Event("Error", NoneId))
          /\ pc' = "done"
    /\ UNCHANGED <<regVars, registered, rtVars, cfgVars, rx, cmd, clientVars, serverVars, next_scid, ndgram, ncmd>>

\* if let Some(connection) = conns.get_mut(&conn_id) { if connection.is_established()
ServerSendTarget(cs, m) == m.conn_id \in DOMAIN cs /\ cs[m.conn_id].est

\* mutant: Close { conn_id: None } closes nothing
ServerApply_CloseAllIgnored(m, cs) ==
    IF m.type = "Send"
    THEN IF m.conn_id \in DOMAIN cs /\ cs[m.conn_id].est
         THEN {[cs EXCEPT ![m.conn_id] = c2] : c2 \in EngineStreamSend(cs[m.conn_id])}
         ELSE {cs}
    ELSE IF m.conn_id # NoId /\ m.conn_id \in DOMAIN cs
         THEN {[cs EXCEPT ![m.conn_id] = EngineClose(@, CLOSE_SERVER)]}
         ELSE {cs}

\* what the server does to its map with one command
ServerApply(m, cs) ==
    IF m.type = "Send"
    THEN IF ServerSendTarget(cs, m)
         THEN {[cs EXCEPT ![m.conn_id] = c2] : c2 \in EngineStreamSend(cs[m.conn_id])}
         ELSE {cs}
    ELSE IF m.conn_id # NoId
         THEN IF m.conn_id \in DOMAIN cs
              THEN {[cs EXCEPT ![m.conn_id] = EngineClose(@, CLOSE_SERVER)]}
              ELSE {cs}
         ELSE {[id \in DOMAIN cs |-> EngineClose(cs[id], CLOSE_SERVER)]}

\* while let Ok(cmd) = rx.try_recv() { ... }: one command
ServerTryRecv ==
    /\ kind = "server" /\ pc = "s_drain" /\ rx # <<>>
    /\ cmd' = Head(rx)
    /\ rx' = Tail(rx)
    /\ conns' \in ServerApply(Head(rx), conns)
    /\ hdr_dcid' = NoId
    /\ UNCHANGED <<regVars, registered, rtVars, cfgVars, pc, events, clientVars, s_announced, start_times,
                   to_close, todo, cur, nsleep, next_scid, ndgram, ncmd>>

\* try_recv finds the channel empty: the drain ends
ServerDrainEnd ==
    /\ kind = "server" /\ pc = "s_drain" /\ rx = <<>>
    /\ pc' = NextStep(pc)
    /\ cmd' = NoCmd
    /\ hdr_dcid' = NoId
    /\ UNCHANGED <<regVars, registered, rtVars, cfgVars, rx, events, clientVars, conns, s_announced,
                   start_times, to_close, todo, cur, nsleep, next_scid, ndgram, ncmd>>

\* let mut to_close = Vec::new(); for (id, connection) in conns.iter_mut()
StartPass(cs) ==
    /\ to_close' = <<>>
    /\ todo' = DOMAIN cs
    /\ cur' = NoId
    /\ pc' = "s_pass"

\* mutant: a datagram of an unknown dcid is fed to the connection accepted last
Deliver_Fallback(cs, dcid) ==
    IF dcid \in DOMAIN cs
    THEN {[cs EXCEPT ![dcid] = c2] : c2 \in EngineRecv(cs[dcid])}
    ELSE IF DOMAIN cs # {}
         THEN LET last == CHOOSE id \in DOMAIN cs : \A o \in DOMAIN cs : o <= id
              IN  {[cs EXCEPT ![last] = c2] : c2 \in EngineRecv(cs[last])}
         ELSE {cs}

\* the map after conns.get_mut(hdr.dcid).recv(..): fed to the connection keyed dcid
Deliver(cs, dcid) ==
    IF dcid \in DOMAIN cs
    THEN {[cs EXCEPT ![dcid] = c2] : c2 \in EngineRecv(cs[dcid])}
    ELSE {cs}

\* mutant: the accepted connection is stored under the dcid the client chose
AcceptKey_ClientChosen(scid, dcid) == dcid

\* conns.insert(scid.clone(), conn): the key is the id OsRng filled in
AcceptKey(scid, dcid) == scid

\* the dcid of a datagram no connection is stored under: an id of a connection
\* since removed, or one the server never generated
UnknownDcids(cs) == ((1 .. (next_scid - 1)) \cup {StrangerId}) \ DOMAIN cs

\* match socket.recv_from(&mut buf): header parse, accept of an unknown dcid, recv
ServerRecv ==
    /\ kind = "server" /\ pc = "s_recv"
    /\ \/ /\ ndgram < MaxDgrams                    \* Ok, Header::from_slice fails
          /\ ndgram' = ndgram + 1
          /\ hdr_dcid' = NoId
          /\ pc' = "s_drain"                       \* continue
          /\ UNCHANGED <<conns, start_times, to_close, todo, cur, next_scid>>
       \/ /\ ndgram < MaxDgrams                    \* Ok, dcid unknown, accept fails
          /\ \E dcid \in UnknownDcids(conns) : hdr_dcid' = dcid
          /\ ndgram' = ndgram + 1
          /\ pc' = "s_drain"                       \* continue
          /\ UNCHANGED <<conns, start_times, to_close, todo, cur, next_scid>>
       \/ /\ ndgram < MaxDgrams                    \* Ok, dcid unknown, accepted
          /\ next_scid <= MaxConns
          /\ \E dcid \in UnknownDcids(conns) :
                /\ hdr_dcid' = dcid
                /\ LET scid == next_scid
                       key == AcceptKey(scid, dcid)
                       cs == [id \in DOMAIN conns \cup {key} |->
                                 IF id = key THEN NewConn ELSE conns[id]]
                   IN  /\ conns' \in Deliver(cs, dcid)
                       /\ start_times' = start_times \cup {key}
                       /\ next_scid' = scid + 1
                       /\ StartPass(cs)
          /\ ndgram' = ndgram + 1
       \/ /\ ndgram < MaxDgrams                    \* Ok, dcid known
          /\ \E dcid \in DOMAIN conns :
                /\ hdr_dcid' = dcid
                /\ conns' \in Deliver(conns, dcid)
          /\ ndgram' = ndgram + 1
          /\ StartPass(conns)
          /\ UNCHANGED <<start_times, next_scid>>
       \/ /\ ~sock_blocking                        \* WouldBlock
          /\ hdr_dcid' = NoId
          /\ StartPass(conns)
          /\ UNCHANGED <<conns, start_times, next_scid, ndgram>>
       \/ /\ pc' = "done"                          \* any other Err: break
          /\ hdr_dcid' = NoId
          /\ UNCHANGED <<conns, start_times, to_close, todo, cur, next_scid, ndgram>>
    /\ UNCHANGED <<regVars, registered, rtVars, cfgVars, rx, cmd, events, clientVars, s_announced,
                   nsleep, ncmd>>

\* the iterator of conns.iter_mut() yields the next entry, in no fixed order
ServerPick ==
    /\ kind = "server" /\ pc = "s_pass" /\ todo # {}
    /\ \E id \in todo :
          /\ cur' = id
          /\ todo' = todo \ {id}
    /\ pc' = "s_send"
    /\ hdr_dcid' = NoId
    /\ UNCHANGED <<regVars, registered, rtVars, cfgVars, rx, cmd, events, clientVars, conns, s_announced,
                   start_times, to_close, nsleep, next_scid, ndgram, ncmd>>

\* mutant: an engine send error ends the loop, as it does in the client
ServerSend_Break ==
    /\ kind = "server" /\ pc = "s_send"
    /\ \/ /\ pc' = NextStep(pc)
          /\ UNCHANGED <<events, to_close>>
       \/ /\ Post(Event("Error", SomeId(cur)))
          /\ to_close' = Append(to_close, cur)
          /\ pc' = "done"
    /\ UNCHANGED <<regVars, registered, rtVars, cfgVars, rx, cmd, clientVars, conns, s_announced, start_times,
                   todo, cur, hdr_dcid, nsleep, next_scid, ndgram, ncmd>>

\* match connection.send(&mut out)
ServerSend ==
    /\ kind = "server" /\ pc = "s_send"
    /\ \/ /\ pc' = NextStep(pc)                   \* Ok(..) or Err(Done)
          /\ UNCHANGED <<events, to_close>>
       \/ /\ Post(Event("Error", SomeId(cur)))     \* any other Err
          /\ to_close' = Append(to_close, cur)
          /\ pc' = "s_pass"                        \* continue
    /\ UNCHANGED <<regVars, registered, rtVars, cfgVars, rx, cmd, clientVars, conns, s_announced, start_times,
                   todo, cur, hdr_dcid, nsleep, next_scid, ndgram, ncmd>>

\* mutant: the emptiness test of the allowlist inverted
ServerUntrusted_Inverted(peer_fp) ==
    trusted_allowlist = {} /\ peer_fp \notin trusted_allowlist

\* the server's trust decision on a peer fingerprint
ServerUntrusted(peer_fp) == trusted_allowlist # {} /\ peer_fp \notin trusted_allowlist

\* mutant: the announced set is not consulted
ServerShouldAnnounce_NoFlag(c, id, ann) == c.est

\* connection.is_established() && !announced.contains(id)
ServerShouldAnnounce(c, id, ann) == c.est /\ id \notin ann

\* if connection.is_established() && !announced.contains(id) { ... }
ServerAnnounce ==
    /\ kind = "server" /\ pc = "s_announce"
    /\ IF ServerShouldAnnounce(conns[cur], cur, s_announced)
       THEN IF ServerUntrusted(conns[cur].fp)
            THEN /\ conns' = [conns EXCEPT ![cur] = EngineClose(@, CLOSE_UNTRUSTED)]
                 /\ to_close' = Append(to_close, cur)
                 /\ pc' = "s_pass"                 \* continue
                 /\ UNCHANGED <<s_announced, events>>
            ELSE /\ s_announced' = s_announced \cup {cur}
                 /\ Post(Connected(SomeId(cur), conns[cur].fp))
                 /\ pc' = NextStep(pc)
                 /\ UNCHANGED <<conns, to_close>>
       ELSE /\ pc' = NextStep(pc)
            /\ UNCHANGED <<conns, s_announced, events, to_close>>
    /\ UNCHANGED <<regVars, registered, rtVars, cfgVars, rx, cmd, clientVars, start_times, todo, cur,
                   hdr_dcid, nsleep, next_scid, ndgram, ncmd>>

\* for stream_id in connection.readable() { loop { stream_recv ... } }
ServerRead ==
    /\ kind = "server" /\ pc = "s_read"
    /\ \E n \in 0 .. conns[cur].rd :
          /\ events' = events \o Messages(SomeId(cur), n)
          /\ conns' = [conns EXCEPT ![cur].rd = 0]
    /\ pc' = NextStep(pc)
    /\ UNCHANGED <<regVars, registered, rtVars, cfgVars, rx, cmd, clientVars, s_announced, start_times, to_close,
                   todo, cur, hdr_dcid, nsleep, next_scid, ndgram, ncmd>>

\* if connection.is_closed() { post Closed; to_close.push(id); continue }
ServerClosed ==
    /\ kind = "server" /\ pc = "s_closed"
    /\ IF conns[cur].st = "closed"
       THEN /\ Post(Event("Closed", SomeId(cur)))
            /\ to_close' = Append(to_close, cur)
            /\ pc' = "s_pass"
       ELSE /\ pc' = NextStep(pc)
            /\ UNCHANGED <<events, to_close>>
    /\ UNCHANGED <<regVars, registered, rtVars, cfgVars, rx, cmd, clientVars, conns, s_announced, start_times,
                   todo, cur, hdr_dcid, nsleep, next_scid, ndgram, ncmd>>

\* what connection.timeout() can return: None, zero, at most 5 ms, more than 5 ms
Timeouts == {"none", "zero", "short", "long"}

\* thread::sleep(wait) is reached when the timeout is Some and not zero
Sleeps(t) == IF t \in {"short", "long"} THEN 1 ELSE 0

\* on_timeout() is reached when the timeout is zero or wait >= timeout
Fires(t) == t \in {"zero", "short"}

\* if let Some(timeout) = connection.timeout() { ... }: the timer step of one connection
ServerTimer ==
    /\ kind = "server" /\ pc = "s_timer"
    /\ \E t \in Timeouts :
          /\ nsleep' = nsleep + Sleeps(t)
          /\ IF Fires(t)
             THEN \E c2 \in EngineOnTimeout(conns[cur]) : conns' = [conns EXCEPT ![cur] = c2]
             ELSE UNCHANGED conns
    /\ pc' = NextStep(pc)
    /\ UNCHANGED <<regVars, registered, rtVars, cfgVars, rx, cmd, events, clientVars, s_announced, start_times,
                   to_close, todo, cur, hdr_dcid, next_scid, ndgram, ncmd>>

\* the ids of a Vec
Range(q) == {q[i] : i \in 1 .. Len(q)}

\* mutant: the accumulated removals are not applied
Removed_None(keys, tc) == keys

\* the keys left once every id of to_close is removed
Removed(keys, tc) == keys \ Range(tc)

\* mutant: the loop ends once its map is empty
LoopBack_ExitWhenEmpty(cs) == IF DOMAIN cs = {} THEN "done" ELSE "s_drain"

\* the end of the body of loop { }: back to the command drain, whatever the map holds
LoopBack(cs) == "s_drain"

\* mutant: the removal takes the ids out of the map only
ServerRemove_LeavesBookkeeping ==
    /\ kind = "server" /\ pc = "s_pass" /\ todo = {}
    /\ conns' = [id \in Removed(DOMAIN conns, to_close) |-> conns[id]]
    /\ to_close' = <<>>
    /\ cur' = NoId
    /\ hdr_dcid' = NoId
    /\ nsleep' = 0
    /\ pc' = LoopBack(conns')
    /\ UNCHANGED <<regVars, registered, rtVars, cfgVars, rx, cmd, events, clientVars, todo,
                   s_announced, start_times, next_scid, ndgram, ncmd>>

\* for id in to_close { conns.remove; announced.remove; start_times.remove }
ServerRemove ==
    /\ kind = "server" /\ pc = "s_pass" /\ todo = {}
    /\ conns' = [id \in Removed(DOMAIN conns, to_close) |-> conns[id]]
    /\ s_announced' = Removed(s_announced, to_close)
    /\ start_times' = Removed(start_times, to_close)
    /\ to_close' = <<>>
    /\ cur' = NoId
    /\ hdr_dcid' = NoId
    /\ nsleep' = 0
    /\ pc' = LoopBack(conns')
    /\ UNCHANGED <<regVars, registered, rtVars, cfgVars, rx, cmd, events, clientVars, todo, next_scid, ndgram, ncmd>>

ServerNext ==
    \/ ServerSetup \/ ServerTryRecv \/ ServerDrainEnd \/ ServerRecv \/ ServerPick
    \/ ServerSend \/ ServerAnnounce \/ ServerRead \/ ServerClosed \/ ServerTimer
    \/ ServerRemove

\* the tail of the spawned closure: map.remove(&handle_id) once the worker returned
ThreadExit ==
    /\ pc = "done" /\ registered
    /\ registered' = FALSE
    /\ UNCHANGED <<regVars, rtVars, cfgVars, pc, rx, cmd, events, clientVars, serverVars,
                   next_scid, ndgram, ncmd>>

Next == ConnSend \/ ConnClose \/ ClientNext \/ ServerNext \/ ThreadExit

Spec == Init /\ [][Next]_vars
\* ------------------------------------------------------------ payload path
\* One established connection, from cc_quic_conn_send on the sending session to
\* the Message events of the receiving session.  The stream carries the bytes the
\* sender's engine accepted, in order and without loss.
Bytes == {0, 255}
Payloads == UNION {[1 .. n -> Bytes] : n \in 0 .. MaxLen}
Pad == 64           \* the '=' of the base64 alphabet; 0 .. 63 are its characters

\* base64::engine::general_purpose::STANDARD.encode
RECURSIVE Base64Encode(_)
Base64Encode(b) ==
    IF Len(b) = 0 THEN <<>>
    ELSE IF Len(b) = 1
         THEN <<b[1] \div 4, (b[1] % 4) * 16, Pad, Pad>>
    ELSE IF Len(b) = 2
         THEN <<b[1] \div 4, (b[1] % 4) * 16 + b[2] \div 16, (b[2] % 16) * 4, Pad>>
    ELSE <<b[1] \div 4, (b[1] % 4) * 16 + b[2] \div 16,
           (b[2] % 16) * 4 + b[3] \div 64, b[3] % 64>>
         \o Base64Encode(SubSeq(b, 4, Len(b)))

Min(a, b) == IF a < b THEN a ELSE b

mainVars == <<registered, cfgVars, pc, rx, cmd, events, conn, announced, serverVars, next_scid,
              ndgram, ncmd>>

\* cc_quic_conn_send: an empty payload is refused, any other is put on the channel
RtConnSend ==
    /\ Len(rt_sent) < MaxSends
    /\ \E payload \in Payloads :
          IF Len(payload) = 0
          THEN /\ rt_status' = "NullPointer"
               /\ UNCHANGED <<rt_sent, rt_rx>>
          ELSE /\ rt_status' = "Ok"
               /\ rt_sent' = Append(rt_sent, payload)
               /\ rt_rx' = Append(rt_rx, payload)
    /\ UNCHANGED <<regVars, mainVars, rt_stream, rt_arrived, rt_read, rt_msgs, rt_pc>>

\* the sender's loop takes a Send: stream_send(CONTROL_STREAM_ID, &payload, false)
\* returns Ok(written) with written <= payload.len(), or Err(Done); the loop
\* looks at neither
RtStreamSend ==
    /\ rt_rx # <<>>
    /\ \E written \in 0 .. Len(Head(rt_rx)) :
          rt_stream' = rt_stream \o SubSeq(Head(rt_rx), 1, written)
    /\ rt_rx' = Tail(rt_rx)
    /\ UNCHANGED <<regVars, mainVars, rt_status, rt_sent, rt_arrived, rt_read, rt_msgs, rt_pc>>

\* the receiver's loop is outside the stream drain: before it, or past its break
\* on Err(Done) or on another error
RtOutside == rt_pc \in {"idle", "done", "err"}

\* the receiver's conn.recv takes in datagrams carrying the next stream bytes
RtRecv ==
    /\ RtOutside
    /\ rt_arrived < Len(rt_stream)
    /\ rt_arrived' \in (rt_arrived + 1) .. Len(rt_stream)
    /\ UNCHANGED <<regVars, mainVars, rt_status, rt_sent, rt_rx, rt_stream, rt_read, rt_msgs, rt_pc>>

\* for stream_id in conn.readable(): the stream holds unread data, its drain begins
RtReadable ==
    /\ RtOutside
    /\ rt_read < rt_arrived
    /\ rt_pc' = "drain"
    /\ UNCHANGED <<regVars, mainVars, rt_status, rt_sent, rt_rx, rt_stream, rt_arrived, rt_read, rt_msgs>>

\* mutant: a read is merged into the Message of the read before it
RtStreamRecv_Merged ==
    /\ rt_pc = "drain"
    /\ rt_read < rt_arrived
    /\ LET read == Min(rt_arrived - rt_read, APP_BUF)
           data == SubSeq(rt_stream, rt_read + 1, rt_read + read)
       IN  /\ rt_msgs' = IF rt_msgs = <<>> THEN <<Base64Encode(data)>>
                         ELSE <<Base64Encode(SubSeq(rt_stream, 1, rt_read + read))>>
           /\ rt_read' = rt_read + read
    /\ UNCHANGED <<regVars, mainVars, rt_status, rt_sent, rt_rx, rt_stream, rt_arrived, rt_pc>>

\* the receiver's drain, Ok((read, _fin)): stream_recv fills app_buf with what the
\* stream holds and the read becomes one Message event; the loop goes on
RtStreamRecv ==
    /\ rt_pc = "drain"
    /\ rt_read < rt_arrived
    /\ LET read == Min(rt_arrived - rt_read, APP_BUF)
           data == SubSeq(rt_stream, rt_read + 1, rt_read + read)
       IN  /\ rt_msgs' = Append(rt_msgs, Base64Encode(data))
           /\ rt_read' = rt_read + read
    /\ UNCHANGED <<regVars, mainVars, rt_status, rt_sent, rt_rx, rt_stream, rt_arrived, rt_pc>>

\* the receiver's drain, Err(Done): the stream holds no more data; break
RtStreamDone ==
    /\ rt_pc = "drain"
    /\ rt_read = rt_arrived
    /\ rt_pc' = "done"
    /\ UNCHANGED <<regVars, mainVars, rt_status, rt_sent, rt_rx, rt_stream, rt_arrived, rt_read, rt_msgs>>

\* the receiver's drain, any other Err: logged; break
RtStreamErr ==
    /\ rt_pc = "drain"
    /\ rt_pc' = "err"
    /\ UNCHANGED <<regVars, mainVars, rt_status, rt_sent, rt_rx, rt_stream, rt_arrived, rt_read, rt_msgs>>

RtNext ==
    \/ RtConnSend \/ RtStreamSend \/ RtRecv \/ RtReadable \/ RtStreamRecv
    \/ RtStreamDone \/ RtStreamErr

\* both sessions past their handshake, nothing sent yet
RtInit == Init /\ kind = "client" /\ expected_fp = EmptyStr /\ ~sock_blocking

RtSpec == RtInit /\ [][RtNext]_vars

\* ------------------------------------------------------------ registry and API
\* The process-wide state behind the API (NEXT_HANDLE, CONNECTIONS), the calls of
\* cc_quic_client_connect / cc_quic_server_start by concurrent callers, step by
\* step, the two dispatch entry points, and each spawned thread: the worker
\* draining its channel, returning, and the closure removing the entry.
Faults(op) ==
    IF op = "client_connect"
    THEN {"none", "null", "utf8", "cert", "addr", "bind", "connect", "nonblocking"}
    ELSE {"none", "null", "utf8", "cert", "addr", "bind", "nonblocking"}

\* the status the checks before the allocation return for one faulty input
SetupStatus(op, fault) ==
    CASE fault = "null" -> "NullPointer"         \* a null argument
      [] fault = "utf8" -> "Internal"            \* cstr_to_string: not UTF-8
      [] fault = "cert" -> "CertLoadError"       \* load_cert_chain / load_priv_key
      [] fault = "addr" -> "SocketError"         \* the address does not parse
      [] fault = "bind" -> "SocketError"         \* UdpSocket::bind
      [] fault = "connect" -> "Ok"               \* socket.connect: .map_err(log).ok()
      [] fault = "nonblocking" -> "Ok"           \* set_nonblocking: warn! only
      [] OTHER -> "Ok"

\* mutant: the handle is taken from the counter before the inputs are checked
CallStep_AllocFirst(p) ==
    CASE p = "begin" -> "alloc"
      [] p = "alloc" -> "checks"
      [] p = "checks" -> "insert"
      [] p = "insert" -> "spawn"
      [] p = "spawn" -> "out"
      [] OTHER -> "ret"

\* the order of the steps of cc_quic_client_connect / cc_quic_server_start
CallStep(p) ==
    CASE p = "begin" -> "checks"
      [] p = "checks" -> "alloc"
      [] p = "alloc" -> "insert"
      [] p = "insert" -> "spawn"
      [] p = "spawn" -> "out"
      [] OTHER -> "ret"

\* mutant: the counter is read but not advanced
FetchAdd_Load(n) == n

\* NEXT_HANDLE.fetch_add(1, Ordering::SeqCst): the counter after the call
FetchAdd(n) == n + 1

\* a caller enters cc_quic_client_connect or cc_quic_server_start
CallBegin(c) ==
    /\ calls[c].pc = "idle"
    /\ ncalls < MaxCalls
    /\ \E op \in {"client_connect", "server_start"} :
          calls' = [calls EXCEPT ![c] = [op |-> op, pc |-> CallStep("begin"),
                                         fault |-> "none", handle_id |-> NoHandle,
                                         status |-> "none", before |-> returned]]
    /\ out_handle' = [out_handle EXCEPT ![c] = NoHandle]
    /\ ncalls' = ncalls + 1
    /\ UNCHANGED <<mainVars, rtVars, NEXT_HANDLE, once_init, CONNECTIONS, chans, threads,
                   blocking, returned, accepted, consumed, last_disp, removals, ndisp>>

\* the null checks, the string conversions, the credentials, the address, the bind,
\* connect and set_nonblocking, on inputs and a socket with at most one fault
CallChecks(c) ==
    /\ calls[c].pc = "checks"
    /\ \E f \in Faults(calls[c].op) :
          LET st == SetupStatus(calls[c].op, f)
          IN  calls' = [calls EXCEPT ![c].fault = f,
                                     ![c].pc = IF st = "Ok" THEN CallStep("checks") ELSE "ret",
                                     ![c].status = IF st = "Ok" THEN "none" ELSE st]
    /\ UNCHANGED <<mainVars, rtVars, NEXT_HANDLE, once_init, CONNECTIONS, chans, threads,
                   blocking, out_handle, returned, accepted, consumed, last_disp,
                   removals, ncalls, ndisp>>

\* let handle_id = NEXT_HANDLE.fetch_add(1, Ordering::SeqCst)
CallAlloc(c) ==
    /\ calls[c].pc = "alloc"
    /\ NEXT_HANDLE \in Handles
    /\ calls' = [calls EXCEPT ![c].pc = CallStep("alloc"), ![c].handle_id = NEXT_HANDLE]
    /\ NEXT_HANDLE' = FetchAdd(NEXT_HANDLE)
    /\ UNCHANGED <<mainVars, rtVars, once_init, CONNECTIONS, chans, threads, blocking,
                   out_handle, returned, accepted, consumed, last_disp, removals,
                   ncalls, ndisp>>

\* CONNECTIONS.get_or_init(DashMap::new).insert(handle_id, ConnectionHandle { tx })
CallInsert(c) ==
    /\ calls[c].pc = "insert"
    /\ once_init' = TRUE
    /\ CONNECTIONS' = CONNECTIONS \cup {calls[c].handle_id}
    /\ chans' = [chans EXCEPT ![calls[c].handle_id] = [q |-> <<>>, open |-> TRUE]]
    /\ calls' = [calls EXCEPT ![c].pc = CallStep("insert")]
    /\ UNCHANGED <<mainVars, rtVars, NEXT_HANDLE, threads, blocking, out_handle, returned,
                   accepted, consumed, last_disp, removals, ncalls, ndisp>>

\* thread::spawn(move || { run_.._worker(..); map.remove(&handle_id) }); the socket
\* goes to the worker as set_nonblocking left it
CallSpawn(c) ==
    /\ calls[c].pc = "spawn"
    /\ threads' = [threads EXCEPT ![calls[c].handle_id] = "running"]
    /\ blocking' = IF calls[c].fault = "nonblocking"
                   THEN blocking \cup {calls[c].handle_id} ELSE blocking
    /\ calls' = [calls EXCEPT ![c].pc = CallStep("spawn")]
    /\ UNCHANGED <<mainVars, rtVars, NEXT_HANDLE, once_init, CONNECTIONS, chans,
                   out_handle, returned, accepted, consumed, last_disp, removals,
                   ncalls, ndisp>>

\* *out_handle = handle_id; CcQuicStatus::Ok.code()
CallOut(c) ==
    /\ calls[c].pc = "out"
    /\ out_handle' = [out_handle EXCEPT ![c] = calls[c].handle_id]
    /\ returned' = returned \cup {calls[c].handle_id}
    /\ calls' = [calls EXCEPT ![c].pc = "ret", ![c].status = "Ok"]
    /\ UNCHANGED <<mainVars, rtVars, NEXT_HANDLE, once_init, CONNECTIONS, chans, threads,
                   blocking, accepted, consumed, last_disp, removals, ncalls, ndisp>>

\* the caller has the status and is free to call again
CallEnd(c) ==
    /\ calls[c].pc = "ret"
    /\ calls' = [calls EXCEPT ![c] = IdleCall]
    /\ UNCHANGED <<mainVars, rtVars, NEXT_HANDLE, once_init, CONNECTIONS, chans, threads,
                   blocking, out_handle, returned, accepted, consumed, last_disp,
                   removals, ncalls, ndisp>>

\* the handles a caller may pass to a dispatch: all the counter has given, one it never gave
DispHandles == (1 .. (NEXT_HANDLE - 1)) \cup {StrangerHandle}

\* entry.tx.send(cmd) under the map's guard: Err once the receiver is dropped
TxSend(ch, id) == IF ch.open THEN [ch EXCEPT !.q = Append(ch.q, id)] ELSE ch

\* the status cc_quic_conn_send returns
SendStatus(fault, h) ==
    CASE fault = "nulldata" -> "NullPointer"     \* data null or empty, conn id null or empty
      [] fault = "badid" -> "Internal"           \* conn id not UTF-8 or not hex
      [] ~once_init -> "Internal"                \* CONNECTIONS.get() is None
      [] h \notin CONNECTIONS -> "Internal"      \* map.get(&handle) is None
      [] ~chans[h].open -> "Internal"            \* tx.send(..).is_err()
      [] OTHER -> "Ok"

\* mutant: an absent handle is reported by the close entry point
CloseStatus_NotFound(h) ==
    IF ~once_init \/ h \notin CONNECTIONS THEN "Internal" ELSE "Ok"

\* the status cc_quic_conn_close returns
CloseStatus(h) == IF ~once_init THEN "Internal" ELSE "Ok"

\* cc_quic_conn_send(handle, conn_id, data)
DispSend(c) ==
    /\ calls[c].pc = "idle"
    /\ ndisp < MaxDisp
    /\ \E h \in DispHandles : \E f \in {"none", "nulldata", "badid"} :
          LET st == SendStatus(f, h)
          IN  /\ last_disp' = [op |-> "send", handle |-> h,
                               found |-> once_init /\ h \in CONNECTIONS, status |-> st]
              /\ IF st = "Ok"
                 THEN /\ chans' = [chans EXCEPT ![h] = TxSend(chans[h], ndisp + 1)]
                      /\ accepted' = [accepted EXCEPT ![h] = Append(accepted[h], ndisp + 1)]
                 ELSE UNCHANGED <<chans, accepted>>
    /\ ndisp' = ndisp + 1
    /\ UNCHANGED <<mainVars, rtVars, NEXT_HANDLE, once_init, CONNECTIONS, threads, blocking,
                   calls, out_handle, returned, consumed, removals, ncalls>>

\* cc_quic_conn_close(handle)
DispClose(c) ==
    /\ calls[c].pc = "idle"
    /\ ndisp < MaxDisp
    /\ \E h \in DispHandles :
          LET st == CloseStatus(h)
          IN  /\ last_disp' = [op |-> "close", handle |-> h,
                               found |-> once_init /\ h \in CONNECTIONS, status |-> st]
              /\ IF once_init /\ h \in CONNECTIONS      \* let _ = entry.tx.send(..)
                 THEN chans' = [chans EXCEPT ![h] = TxSend(chans[h], ndisp + 1)]
                 ELSE UNCHANGED chans
              /\ IF st = "Ok" /\ h \in Handles
                 THEN accepted' = [accepted EXCEPT ![h] = Append(accepted[h], ndisp + 1)]
                 ELSE UNCHANGED accepted
    /\ ndisp' = ndisp + 1
    /\ UNCHANGED <<mainVars, rtVars, NEXT_HANDLE, once_init, CONNECTIONS, threads, blocking,
                   calls, out_handle, returned, consumed, removals, ncalls>>

\* while let Ok(cmd) = rx.try_recv(): the worker takes the oldest command
WorkerTryRecv(h) ==
    /\ threads[h] = "running"
    /\ chans[h].q # <<>>
    /\ consumed' = [consumed EXCEPT ![h] = Append(consumed[h], Head(chans[h].q))]
    /\ chans' = [chans EXCEPT ![h].q = Tail(chans[h].q)]
    /\ UNCHANGED <<mainVars, rtVars, NEXT_HANDLE, once_init, CONNECTIONS, threads, blocking,
                   calls, out_handle, returned, accepted, last_disp, removals, ncalls, ndisp>>

\* the worker returns (a return in its setup, a break of its loop): rx is dropped
\* with whatever the channel still holds
WorkerReturn(h) ==
    /\ threads[h] = "running"
    /\ threads' = [threads EXCEPT ![h] = "ended"]
    /\ chans' = [chans EXCEPT ![h] = [q |-> <<>>, open |-> FALSE]]
    /\ UNCHANGED <<mainVars, rtVars, NEXT_HANDLE, once_init, CONNECTIONS, blocking, calls,
                   out_handle, returned, accepted, consumed, last_disp, removals,
                   ncalls, ndisp>>

\* mutant: the entry is removed while the worker still runs
MayRemove_Running(t) == t \in {"running", "ended"}

\* the closure reaches map.remove only after run_.._worker returned
MayRemove(t) == t = "ended"

\* if let Some(map) = CONNECTIONS.get() { map.remove(&handle_id); }
ThreadRemove(h) ==
    /\ MayRemove(threads[h])
    /\ threads' = [threads EXCEPT ![h] = "exited"]
    /\ CONNECTIONS' = CONNECTIONS \ {h}
    /\ removals' = [removals EXCEPT ![h] = removals[h] + 1]
    /\ UNCHANGED <<mainVars, rtVars, NEXT_HANDLE, once_init, chans, blocking, calls,
                   out_handle, returned, accepted, consumed, last_disp, ncalls, ndisp>>

RegNext ==
    \/ \E c \in Callers : CallBegin(c)
    \/ \E c \in Callers : CallChecks(c)
    \/ \E c \in Callers : CallAlloc(c)
    \/ \E c \in Callers : CallInsert(c)
    \/ \E c \in Callers : CallSpawn(c)
    \/ \E c \in Callers : CallOut(c)
    \/ \E c \in Callers : CallEnd(c)
    \/ \E c \in Callers : DispSend(c)
    \/ \E c \in Callers : DispClose(c)
    \/ \E h \in Handles : WorkerTryRecv(h)
    \/ \E h \in Handles : WorkerReturn(h)
    \/ \E h \in Handles : ThreadRemove(h)

RegStart == Init /\ kind = "client" /\ expected_fp = EmptyStr /\ ~sock_blocking

RegSpec == RegStart /\ [][RegNext]_vars

\* thread scheduling: a thread whose worker returned does reach its map.remove
RegFairSpec == RegSpec /\ \A h \in Handles : WF_vars(ThreadRemove(h))

\* ============================================================ properties
\* positions of the events of one type carrying connection id cid
At(t, cid) == {i \in 1 .. Len(events) : events[i].type = t /\ events[i].conn = cid}
\* positions of all events carrying connection id cid
AtAny(cid) == {i \in 1 .. Len(events) : events[i].conn = cid}
\* connection ids that may appear in an event
EventIds == {SomeId(id) : id \in 1 .. (MaxConns + 1)}

\* C1: for every connection id at most one Connected event carrying it is emitted
Thm_C1 == \A cid \in EventIds : Cardinality(At("Connected", cid)) <= 1

\* a server pass reaches the announce test of a connection announced earlier
Wit_C1 ==
    /\ kind = "server" /\ pc = "s_announce"
    /\ cur \in s_announced /\ conns[cur].est
    /\ At("Connected", SomeId(cur)) # {}

Thm_C3 ==
    \A cid \in EventIds :
        /\ Cardinality(At("Closed", cid)) <= 1
        /\ \A i \in At("Closed", cid) : \A j \in AtAny(cid) : j <= i

\* the server loop went on after a Closed event: the connection is out of the
\* map and a later datagram has been taken in
Wit_C3 ==
    /\ kind = "server" /\ pc = "s_pass"
    /\ \E id \in 1 .. MaxConns :
          /\ At("Closed", SomeId(id)) # {}
          /\ id \notin DOMAIN conns
          /\ DOMAIN conns # {}

\* the trust policy as the specification states it
ClientPinnedOut(fp) == expected_fp # EmptyStr /\ fp # expected_fp
ServerPinnedOut(fp) == trusted_allowlist # {} /\ fp \notin trusted_allowlist

\* established connections whose fingerprint fails the policy
ClientRejects == kind = "client" /\ conn.est /\ ClientPinnedOut(conn.fp)
ServerRejects == {id \in DOMAIN conns : conns[id].est /\ ServerPinnedOut(conns[id].fp)}

\* C4: a connection whose fingerprint fails an enabled pinning never gets a
\* Connected event and never gets a Message event, and no Connected event
\* carries a fingerprint the policy rejects
Thm_C4 ==
    /\ ClientRejects =>
          At("Connected", SomeId(ClientScid)) \cup At("Message", SomeId(ClientScid)) = {}
    /\ \A id \in ServerRejects :
          At("Connected", SomeId(id)) \cup At("Message", SomeId(id)) = {}
    /\ \A i \in 1 .. Len(events) :
          events[i].type = "Connected" =>
              /\ ~ClientPinnedOut(events[i].peer_fingerprint)
              /\ ~ServerPinnedOut(events[i].peer_fingerprint)

\* the server's trust check has rejected a connection of a pass
Wit_C4 ==
    \E id \in ServerRejects : conns[id].code = CLOSE_UNTRUSTED /\ id \in Range(to_close)

\* C5: a client loop that met a fingerprint mismatch has emitted an Error event
\* and then exactly one Closed event for the connection when it terminates
CE_C5 ==
    (kind = "client" /\ pc = "done" /\ conn.code = CLOSE_MISMATCH) =>
        /\ Cardinality(At("Closed", SomeId(ClientScid))) = 1
        /\ \E i \in At("Error", SomeId(ClientScid)) :
              \A j \in At("Closed", SomeId(ClientScid)) : i < j

\* C6: when a connection the server closed with the untrusted-client code leaves
\* the map, an Error event and after it a Closed event were emitted for its id
CE_C6 ==
    [][\A id \in DOMAIN conns \ DOMAIN conns' :
          conns[id].code = CLOSE_UNTRUSTED =>
              \E i \in At("Error", SomeId(id)) : \E j \in At("Closed", SomeId(id)) : i < j]_vars

\* server connections the current pass has still to take through its announce test
PendingInPass ==
    IF pc \in {"s_send", "s_announce"} THEN todo \cup {cur}
    ELSE IF pc \in {"s_pass", "s_read", "s_closed", "s_timer"} THEN todo
    ELSE {}

\* C7: with pinning disabled every established connection is announced at the
\* announce test that follows its establishment, with the fingerprint the peer
\* presented, unless an engine send error removes it first; and no connection
\* is closed with a trust-rejection code
Thm_C7 ==
    /\ (kind = "client" /\ expected_fp = EmptyStr) =>
          /\ conn.code # CLOSE_MISMATCH
          /\ (conn.est /\ pc # "c_announce") =>
                \E i \in At("Connected", SomeId(ClientScid)) :
                    events[i].peer_fingerprint = conn.fp
    /\ (kind = "server" /\ trusted_allowlist = {}) =>
          \A id \in DOMAIN conns :
              /\ conns[id].code # CLOSE_UNTRUSTED
              /\ (conns[id].est /\ id \notin PendingInPass /\ id \notin Range(to_close)) =>
                    /\ id \in s_announced
                    /\ \E i \in At("Connected", SomeId(id)) :
                          events[i].peer_fingerprint = conns[id].fp

\* pinning disabled, and a peer presenting the certificate of fingerprint bb announced
Wit_C7 ==
    /\ kind = "server" /\ trusted_allowlist = {}
    /\ \E id \in DOMAIN conns :
          /\ conns[id].est /\ conns[id].fp = <<"b", "b">> /\ id \in s_announced
          /\ At("Connected", SomeId(id)) # {}

\* the loop is about to take a Send whose target it does not know
UnknownSend ==
    /\ pc \in {"c_drain", "s_drain"} /\ rx # <<>> /\ Head(rx).type = "Send"
    /\ IF kind = "client" THEN Head(rx).conn_id # ClientScid
                          ELSE Head(rx).conn_id \notin DOMAIN conns

\* C8: a Send whose target the loop does not know changes nothing but the
\* channel: no event, no engine call that changes a connection, the same map and
\* announced bookkeeping, and the loop stays in its drain
Thm_C8 ==
    [][UnknownSend =>
          /\ events' = events /\ conn' = conn /\ conns' = conns
          /\ announced' = announced /\ s_announced' = s_announced
          /\ start_times' = start_times /\ pc' = pc]_vars

\* the client has just taken a Send for another id while its connection is
\* established and open
Wit_C8 ==
    /\ kind = "client" /\ pc = "c_drain"
    /\ cmd.type = "Send" /\ cmd.conn_id # ClientScid
    /\ conn.est /\ conn.st = "open"

\* ------------------------------------------------------------ fairness
\* The loop thread is scheduled again and again, except that nothing makes a
\* recv_from on a blocking socket return; and the engine's draining timer of a
\* closing connection runs out after finitely many timer steps.
ServerRuns == ServerNext /\ ~(sock_blocking /\ pc = "s_recv")

TimerCloses(id) ==
    /\ ServerTimer
    /\ cur = id /\ conns[id].st = "closing"
    /\ conns'[id].st = "closed"

\* a server session without pinning whose application only ever asks to close
CloseInit == Init /\ kind = "server" /\ trusted_allowlist = {}
CloseNext == ConnClose \/ ServerNext

FairSpec ==
    /\ CloseInit /\ [][CloseNext]_vars
    /\ WF_vars(ServerRuns)
    /\ \A id \in 1 .. MaxConns : SF_vars(TimerCloses(id))

\* the loop takes a Close { conn_id: None } from the channel
TakesCloseAll ==
    /\ kind = "server" /\ pc = "s_drain"
    /\ rx # <<>> /\ Head(rx) = [type |-> "Close", conn_id |-> NoId]
    /\ rx' = Tail(rx)

\* connections of the map that a server Close command closed
CloseTargets == {id \in DOMAIN conns : conns[id].code = CLOSE_SERVER}

RECURSIVE Base64Decode(_)
Base64Decode(c) ==
    IF Len(c) < 4 THEN <<>>
    ELSE IF c[3] = Pad
         THEN <<c[1] * 4 + c[2] \div 16>>
    ELSE IF c[4] = Pad
         THEN <<c[1] * 4 + c[2] \div 16, (c[2] % 16) * 16 + c[3] \div 4>>
    ELSE <<c[1] * 4 + c[2] \div 16, (c[2] % 16) * 16 + c[3] \div 4,
           (c[3] % 4) * 64 + c[4]>>
         \o Base64Decode(SubSeq(c, 5, Len(c)))

\* nothing of the payload path is in flight
RtQuiet == rt_rx = <<>> /\ rt_arrived = Len(rt_stream) /\ rt_read = rt_arrived

\* C10: once nothing is in flight, the Message events of the receiver decode to
\* the payloads the sender submitted: each one once, whole, and in order
CE_C10 ==
    RtQuiet => [i \in 1 .. Len(rt_msgs) |-> Base64Decode(rt_msgs[i])] = rt_sent

\* ------------------------------------------------------------ registry properties
\* C11: a dispatch (send or close entry point) to a handle that has no entry in
\* the registry reports a non-Ok status.
CE_C11 ==
    (last_disp.op \in {"send", "close"} /\ ~last_disp.found) => last_disp.status # "Ok"

\* the calls that hold a handle the counter gave them
Holding == {c \in Callers : calls[c].handle_id # NoHandle}

\* C12: a call's handle is greater than every handle returned before the call
\* began, no two calls hold the same handle, and a handle being issued was never
\* returned, registered or removed before.
Thm_C12 ==
    /\ \A c \in Holding : \A h \in calls[c].before : calls[c].handle_id > h
    /\ \A c \in Holding : \A d \in Holding :
          c # d => calls[c].handle_id # calls[d].handle_id
    /\ \A c \in Holding :
          calls[c].pc # "ret" => calls[c].handle_id \notin returned
    /\ \A c \in Holding :
          calls[c].pc = "insert" =>
             /\ calls[c].handle_id \notin CONNECTIONS
             /\ removals[calls[c].handle_id] = 0

\* a call is handed a handle after an earlier handle was returned and removed,
\* while another caller holds a handle of its own
Wit_C12 ==
    \E c \in Holding : \E d \in Callers :
       /\ \E h \in calls[c].before : removals[h] = 1
       /\ calls[c].pc = "out"
       /\ c # d

\* C13: an entry leaves the registry only by its own thread, once, after the
\* worker returned; after that no dispatch puts a command on its channel; and
\* the handle of every worker that returned does leave the registry.
Thm_C13 ==
    /\ [][\A h \in Handles :
            (h \in CONNECTIONS /\ h \notin CONNECTIONS') =>
               (threads[h] = "ended" /\ removals[h] = 0 /\ removals'[h] = 1)]_vars
    /\ [][\A h \in Handles :
            removals[h] > 0 => (chans'[h] = chans[h] /\ removals'[h] = removals[h])]_vars
    /\ \A h \in Handles : (threads[h] = "ended") ~> (h \notin CONNECTIONS)

\* a send was dispatched to a handle whose thread has removed its entry
Wit_C13 ==
    \E h \in Handles :
       /\ removals[h] = 1 /\ threads[h] = "exited"
       /\ last_disp.op = "send" /\ last_disp.handle = h /\ ~last_disp.found

\* C14: once a session's thread is gone, the commands its worker consumed are
\* exactly the commands dispatch returned Ok for, in the same order.
CE_C14 ==
    \A h \in Handles : threads[h] = "exited" => consumed[h] = accepted[h]

\* C15: a call that returned a non-Ok status took no handle from the counter
\* (so it inserted no entry and spawned no thread) and wrote no out-handle.
Thm_C15 ==
    \A c \in Callers :
       (calls[c].pc = "ret" /\ calls[c].status # "Ok") =>
          /\ calls[c].handle_id = NoHandle
          /\ out_handle[c] = NoHandle

\* a bind failure is returned while the other caller's session is registered
Wit_C15 ==
    \E c \in Callers :
       /\ calls[c].pc = "ret" /\ calls[c].fault = "bind"
       /\ calls[c].status = "SocketError"
       /\ CONNECTIONS # {} /\ NEXT_HANDLE = 2

\* C16: a call whose UDP connect or set_nonblocking failed returns the socket
\* failure status, and no worker thread is started on a blocking socket.
CE_C16 ==
    /\ \A c \in Callers :
          (calls[c].pc = "ret" /\ calls[c].fault \in {"connect", "nonblocking"}) =>
             calls[c].status = "SocketError"
    /\ \A h \in Handles : threads[h] # "none" => h \notin blocking

\* ------------------------------------------------------------ loop termination
\* C17: a running client loop ends only right after the Closed event of the
\* closed test or right after an Error event for an engine send or a socket
\* receive failure.
CE_C17 ==
    [][(kind = "client" /\ pc \notin {"setup", "done"} /\ pc' = "done") =>
          /\ Len(events') = Len(events) + 1
          /\ \/ pc = "c_closed" /\ events'[Len(events')].type = "Closed"
             \/ pc \in {"c_send", "c_recv"} /\ events'[Len(events')].type = "Error"]_vars

\* C18: a running server loop ends only in its socket receive step, on a receive
\* error that touches neither the map nor the events; never on a command, never
\* because the map is empty; and the server's registry entry is removed only
\* once the loop has ended.
Thm_C18 ==
    /\ [][(kind = "server" /\ pc \notin {"setup", "done"} /\ pc' = "done") =>
             (pc = "s_recv" /\ UNCHANGED <<conns, events, rx, cmd>>)]_vars
    /\ [][(kind = "server" /\ registered /\ ~registered') => pc = "done"]_vars

\* a running, registered server loop whose map was emptied of its first, closed
\* connection, that has accepted a second one since and has just taken a Close
Wit_C18 ==
    /\ kind = "server" /\ pc = "s_drain" /\ registered
    /\ cmd.type = "Close"
    /\ At("Closed", SomeId(1)) # {}
    /\ DOMAIN conns = {2} /\ conns[2].code = CLOSE_SERVER

\* ------------------------------------------------------------ client close
\* A client session whose application only ever asks to close. The loop thread
\* and the closure's tail are scheduled again and again, except that nothing
\* makes a recv_from on a blocking socket return; and the engine's draining
\* timer of a closing connection runs out after finitely many timer steps.
ClientRuns == ClientNext /\ ~(sock_blocking /\ pc = "c_recv")

ClientTimerCloses ==
    /\ ClientTimer
    /\ conn.st = "closing"
    /\ conn'.st = "closed"

ClientCloseInit == Init /\ kind = "client"
ClientCloseNext == ConnClose \/ ClientNext \/ ThreadExit

ClientFairSpec ==
    /\ ClientCloseInit /\ [][ClientCloseNext]_vars
    /\ WF_vars(ClientRuns)
    /\ WF_vars(ThreadExit)
    /\ SF_vars(ClientTimerCloses)

\* the client loop takes a Close from the channel
TakesClose ==
    /\ kind = "client" /\ pc = "c_drain"
    /\ rx # <<>> /\ Head(rx).type = "Close"
    /\ rx' = Tail(rx)

\* Closed events of the client's connection
ClosedCount == Cardinality(At("Closed", SomeId(ClientScid)))

\* C19 as stated: a client loop that applied a Close command has emitted exactly
\* one Closed event when it has ended
CE_C19 ==
    (kind = "client" /\ pc = "done" /\ conn.code = CLOSE_APP) => ClosedCount = 1

\* C19 amended: the Close is applied in the drain that takes it; once a Close is
\* accepted the loop ends and the handle leaves the registry; and the ended loop
\* has emitted one Closed event if it ended through the closed test and none if
\* it ended on an engine send error, a socket receive error, a fingerprint
\* mismatch or a setup failure; the loop may instead wait for ever in recv_from
\* on a socket left in blocking mode
Thm_C19 ==
    /\ [][TakesClose => conn'.st # "open"]_vars
    /\ [][(kind = "client" /\ pc # "done" /\ pc' = "done") =>
             ClosedCount' = (IF pc = "c_closed" THEN 1 ELSE 0)]_vars
    /\ (kind = "client" /\ ncmd > 0) ~>
          ((pc = "done" /\ ~registered) \/ (sock_blocking /\ pc = "c_recv"))

\* the session closed by the application's Close: one Closed event, loop ended,
\* entry removed
Wit_C19 ==
    /\ kind = "client" /\ pc = "done" /\ ~registered
    /\ conn.code = CLOSE_APP /\ ClosedCount = 1

\* ------------------------------------------------------------ server send error
\* the steps of the per-connection pass, the removal excluded
InPass == pc \in {"s_send", "s_announce", "s_read", "s_closed", "s_timer"}
              \/ (pc = "s_pass" /\ todo # {})

\* C20: an engine send error gives its connection one Error event, no Closed
\* event and a place in to_close; the step neither ends the loop nor touches the
\* map or the connections still to visit; the pass never changes the map's keys;
\* and the removal after the pass removes the ids of to_close and no other, from
\* the map, the announced set and the start times.
Thm_C20 ==
    /\ [](kind = "server" =>
            \A id \in 1 .. MaxConns :
               At("Error", SomeId(id)) # {} =>
                  /\ Cardinality(At("Error", SomeId(id))) = 1
                  /\ At("Closed", SomeId(id)) = {}
                  /\ id \in DOMAIN conns => (id \in Range(to_close) /\ pc # "s_drain"))
    /\ [][(kind = "server" /\ pc = "s_send" /\ Len(events') > Len(events)) =>
             /\ events' = Append(events, Event("Error", SomeId(cur)))
             /\ pc' = "s_pass"
             /\ UNCHANGED <<conns, todo, s_announced, start_times>>]_vars
    /\ [][(kind = "server" /\ InPass) => DOMAIN conns' = DOMAIN conns]_vars
    /\ [][(kind = "server" /\ pc = "s_pass" /\ todo = {} /\ pc' # pc) =>
             /\ DOMAIN conns' = DOMAIN conns \ Range(to_close)
             /\ \A id \in DOMAIN conns' : conns'[id] = conns[id]
             /\ s_announced' = s_announced \ Range(to_close)
             /\ start_times' = start_times \ Range(to_close)]_vars

\* after a send error on one connection the same pass goes on to the other one
Wit_C20 ==
    /\ kind = "server" /\ pc = "s_announce"
    /\ \E id \in Range(to_close) :
          /\ At("Error", SomeId(id)) # {}
          /\ cur # id /\ cur \in DOMAIN conns

\* ------------------------------------------------------------ server iteration properties
\* C21 as stated: every server iteration that took a datagram from the socket
\* goes on to the per-connection pass over the whole map, whatever the datagram
\* was; a datagram whose header does not parse or whose accept fails skips nothing.
CE_C21 ==
    [][(kind = "server" /\ pc = "s_recv" /\ ndgram' > ndgram) =>
          (pc' = "s_pass" /\ todo' = DOMAIN conns')]_vars

\* the keys the random source has handed out so far
GeneratedIds == 1 .. (next_scid - 1)

\* C22: every key of the server's map is an id the server generated when it
\* accepted, never the dcid the client chose; an accept adds exactly one key, the
\* fresh one, which no earlier connection had; and a receive step changes no
\* connection but the one stored under the dcid of its datagram.
Thm_C22 ==
    /\ [](kind = "server" =>
            /\ DOMAIN conns \subseteq GeneratedIds
            /\ StrangerId \notin DOMAIN conns)
    /\ [][(kind = "server" /\ pc = "s_recv") =>
             /\ \A id \in DOMAIN conns' \ DOMAIN conns :
                   /\ id = next_scid /\ id # hdr_dcid'
                   /\ id \notin GeneratedIds
                   /\ next_scid' = next_scid + 1
             /\ Cardinality(DOMAIN conns' \ DOMAIN conns) <= 1
             /\ \A id \in DOMAIN conns \cap DOMAIN conns' :
                   conns'[id] # conns[id] => id = hdr_dcid']_vars

\* a datagram was fed to the connection stored under its dcid, which it
\* established, while the other connection of the map was left as accepted
Wit_C22 ==
    /\ kind = "server" /\ pc = "s_pass"
    /\ hdr_dcid \in DOMAIN conns
    /\ conns[hdr_dcid].est
    /\ hdr_dcid \in GeneratedIds
    /\ \E other \in DOMAIN conns : other # hdr_dcid /\ conns[other] = NewConn

\* C23: the datagram that triggers an accept has a dcid no connection is stored
\* under; the connection it creates is stored under the fresh id and is not fed
\* the datagram, and no other connection is fed it either; every accepted
\* datagram of an unknown dcid adds one entry to the map.
Thm_C23 ==
    [][(kind = "server" /\ pc = "s_recv" /\ DOMAIN conns' # DOMAIN conns) =>
          /\ hdr_dcid' \notin DOMAIN conns
          /\ hdr_dcid' # next_scid
          /\ next_scid \notin DOMAIN conns
          /\ DOMAIN conns' = DOMAIN conns \cup {next_scid}
          /\ conns'[next_scid] = NewConn
          /\ \A id \in DOMAIN conns : conns'[id] = conns[id]]_vars

\* two datagrams carrying the same unknown dcid have created two entries, and
\* neither connection has been fed anything
Wit_C23 ==
    /\ kind = "server" /\ pc = "s_pass" /\ ndgram = 2
    /\ hdr_dcid = StrangerId
    /\ DOMAIN conns = {1, 2}
    /\ conns[1] = NewConn /\ conns[2] = NewConn

\* C24 as stated: a server iteration sleeps at most once, however many
\* connections its map holds.
CE_C24 == kind = "server" => nsleep <= 1

\* C26: the server's bookkeeping agrees with its map in every state between two
\* steps of the loop, the iteration boundaries among them: every announced id
\* is a key of the map and the ids with a start time are exactly the keys; and a
\* step that removes a connection removes its announced flag and its start time.
Thm_C26 ==
    /\ [](kind = "server" =>
            /\ s_announced \subseteq DOMAIN conns
            /\ start_times = DOMAIN conns)
    /\ [][kind = "server" =>
             \A id \in DOMAIN conns \ DOMAIN conns' :
                 id \notin s_announced' /\ id \notin start_times']_vars

\* at an iteration boundary an announced connection has been removed while
\* another connection stays in the map
Wit_C26 ==
    /\ kind = "server" /\ pc = "s_drain"
    /\ DOMAIN conns # {}
    /\ \E id \in 1 .. MaxConns :
          /\ At("Connected", SomeId(id)) # {}
          /\ id \notin DOMAIN conns

\* ------------------------------------------------------------ stream drain properties
\* the bytes of a sequence of data_base64 fields, decoded and put end to end
RECURSIVE Decoded(_)
Decoded(msgs) ==
    IF msgs = <<>> THEN <<>> ELSE Base64Decode(Head(msgs)) \o Decoded(Tail(msgs))

\* C25: in the drain of a readable stream every successful read appends exactly
\* one Message, which carries the base64 of the bytes of that read and of no
\* other; Messages come from reads only, so in read order their bytes are the
\* bytes read so far; the drain ends on "no more data" only when the stream holds
\* no unread byte, or on a read error, and neither ending emits an event.
Thm_C25 ==
    /\ [][rt_read' # rt_read =>
             /\ rt_pc = "drain" /\ rt_pc' = "drain"
             /\ rt_read' > rt_read
             /\ rt_msgs' = Append(rt_msgs,
                                  Base64Encode(SubSeq(rt_stream, rt_read + 1, rt_read')))]_vars
    /\ [][rt_msgs' # rt_msgs => rt_read' # rt_read]_vars
    /\ [](Decoded(rt_msgs) = SubSeq(rt_stream, 1, rt_read))
    /\ [][(rt_pc = "drain" /\ rt_pc' # "drain") =>
             /\ rt_pc' \in {"done", "err"}
             /\ rt_pc' = "done" => rt_read = rt_arrived
             /\ rt_msgs' = rt_msgs /\ rt_read' = rt_read]_vars

\* two reads have given two Messages, and a drain has ended on a read error
\* with bytes of the stream unread
Wit_C25 ==
    /\ Len(rt_msgs) = 2
    /\ rt_pc = "err"
    /\ rt_read < rt_arrived

\* ------------------------------------------------------------ peers without a certificate
\* the session compares fingerprints: the client has an expected fingerprint, the
\* server an allowlist that is not empty
PinningOn ==
    \/ kind = "client" /\ expected_fp # EmptyStr
    \/ kind = "server" /\ trusted_allowlist # {}

\* the loop takes the announce test of a peer that presented no certificate and
\* is to be announced or rejected
NoCertAtTest ==
    /\ pc' # pc
    /\ \/ /\ kind = "client" /\ pc = "c_announce"
          /\ ClientShouldAnnounce(conn, announced) /\ conn.fp = EmptyStr
       \/ /\ kind = "server" /\ pc = "s_announce"
          /\ ServerShouldAnnounce(conns[cur], cur, s_announced) /\ conns[cur].fp = EmptyStr

\* the id of the connection at the announce test
TestedId == IF kind = "client" THEN ClientScid ELSE cur

\* C27: the allowlist never holds the empty string, and what it holds is trimmed
\* and in lower case; while pinning is enabled no Connected event carries an
\* empty fingerprint, and the announce test of a peer without certificate rejects
\* it (the client posts Error and ends, the server marks it for removal without
\* an event); with pinning disabled the test announces it with an empty
\* peer_fingerprint.
Thm_C27 ==
    /\ [](/\ EmptyStr \notin trusted_allowlist
          /\ \A f \in trusted_allowlist : f = Trim(f) /\ f = ToLower(f))
    /\ [](PinningOn =>
            \A i \in 1 .. Len(events) :
               events[i].type = "Connected" => events[i].peer_fingerprint # EmptyStr)
    /\ [][(NoCertAtTest /\ PinningOn /\ kind = "client") =>
             /\ pc' = "done"
             /\ events' = Append(events, Event("Error", SomeId(ClientScid)))]_vars
    /\ [][(NoCertAtTest /\ PinningOn /\ kind = "server") =>
             /\ pc' = "s_pass"
             /\ events' = events
             /\ cur \in Range(to_close') /\ cur \notin s_announced'
             /\ conns'[cur].st # "open"]_vars
    /\ [][(NoCertAtTest /\ ~PinningOn) =>
             events' = Append(events, Connected(SomeId(TestedId), EmptyStr))]_vars

\* a server with an allowlist has rejected an established peer that presented
\* no certificate
Wit_C27 ==
    /\ kind = "server" /\ trusted_allowlist # {} /\ pc = "s_pass"
    /\ \E id \in DOMAIN conns :
          /\ conns[id].est /\ conns[id].fp = EmptyStr
          /\ conns[id].code = CLOSE_UNTRUSTED
          /\ id \in Range(to_close)
          /\ At("Connected", SomeId(id)) = {}

====
